---- MODULE Spec2Model ----
(***************************************************************************)
(* Agent Registry Client of Agentspace-AddAgents-UI.                       *)
(*                                                                         *)
(* Two clients of the same remote agent store are modelled side by side:   *)
(*   "requests" : src/util.py (add_agent .. delete_agent), HTTP through    *)
(*                the requests library;                                    *)
(*   "curl"     : src/as_agent_registry_service.py (create_agent ..        *)
(*                delete_agent), HTTP through a curl subprocess.           *)
(*                                                                         *)
(* src/app2.py, the in-memory category store of the Agentspace apps, is    *)
(* modelled next to them: its two globals and the requests its worker      *)
(* threads are handling.                                                   *)
(*                                                                         *)
(* Conventions of the model                                                *)
(*   - a Python str|None value is a TLA+ string, None being PyNone;        *)
(*   - an f-string that composes a resource path is the sequence of its    *)
(*     segments, so that "composed" and "verbatim" differ; a plain string  *)
(*     used where a path may stand is Text(s);                             *)
(*   - a JSON object of the agent API is a Doc: the set of keys present    *)
(*     and the value under each key (the default value when absent);       *)
(*     nested groups are flattened to their leaf (toolDescription stands   *)
(*     for adkAgentDefinition.toolSettings.toolDescription);               *)
(*   - a dict returned by an operation is a Result: the set of its keys,   *)
(*     the values under them, and raised = TRUE when the operation did not *)
(*     return but raised.                                                  *)
(***************************************************************************)
EXTENDS Integers, Sequences, FiniteSets, TLC

VARIABLES
    store,      \* remote agent store of scope (TheProject, TheApp): id -> Doc
    pc,         \* "idle" | "update_merged" (update between its GET and its PATCH) | "done"
    op,         \* the operation in progress or last finished: name, client, args
    existing,   \* update: get_result of its own get_agent
    payload,    \* update: updated_data, the merged PATCH body
    before,     \* the store when the operation was called
    touched,    \* update: another writer changed the agent since update's GET
    requests,   \* requests the operation has sent to the remote store, in order
    answers,    \* the kind of answer each of those requests got, in order
    credentials,\* the outcome of each get_credentials() of the operation, in order
    result,     \* what the last finished operation returned (or raised)
    previous,   \* the operation that returned before this one was called
    nops,       \* operations started so far
    agentspace_apps_db, \* app2.py: internal app id -> its "categories" list
    next_category_id,   \* app2.py: the global id generator
    handlers,           \* app2.py: the request each worker thread is handling
    created             \* app2.py: the ids of the categories appended, in order

\* the registry clients and their remote store
registry == <<store, pc, op, existing, payload, before, touched, requests,
              answers, credentials, result, previous, nops>>

\* the category store
categories == <<agentspace_apps_db, next_category_id, handlers, created>>

vars == <<registry, categories>>

----------------------------------------------------------------------------
(* Python values *)

PyNone == "<None>"

\* bool(v) of a str or None
Truthy(v) == v # PyNone /\ v # ""

\* a plain string where a resource path may stand ("" is the empty text)
Text(s) == IF s = "" THEN <<>> ELSE <<s>>

----------------------------------------------------------------------------
(* Bounds and input domains *)

\* most operations in one behaviour of Spec
MaxOps == 2

\* longest authorizations sequence of an initially stored agent
MaxAuths == 2

TheProject == "p1"
TheApp     == "app1"
AgentIds   == {"a1", "a2"}
Clients    == {"requests", "curl"}

\* list order of the remote store
IdOrder  == <<"a1", "a2">>

----------------------------------------------------------------------------
(* JSON objects of the agent API *)

ValueKeys == {"displayName", "description", "toolDescription",
              "reasoningEngine", "authorizations", "icon"}

\* the empty JSON object {}
NoDoc ==
    [keys |-> {}, name |-> "", displayName |-> "", description |-> "",
     toolDescription |-> "", reasoningEngine |-> <<>>, authorizations |-> <<>>,
     icon |-> {}, error |-> ""]

\* dict.get(k, default)
DictGet(d, k, default) == IF k \in d.keys THEN d[k] ELSE default

\* the body of an HTTP error answer: {"error": {"code": status, ...}}
ErrorBody(status) == [NoDoc EXCEPT !.keys = {"error"}, !.error = status]

\* an icon group {"uri": u}
IconGroup(u) == {<<"uri", u>>}

\* A stored agent as the API serves it: the name is always present, a field
\* holding its default value is left out.
Canon(d) ==
    [d EXCEPT !.keys = {"name"} \cup {k \in ValueKeys : d[k] # NoDoc[k]},
              !.error = ""]

----------------------------------------------------------------------------
(* Remote Agent API: the collaborator behind the HTTP address              *)
(*   .../projects/{project}/locations/global/collections/default_collection *)
(*      /engines/{app}/assistants/default_assistant/agents[/{agent_id}]     *)

\* What the environment decides for one request is a record e: auth (the
\* credential provider grants a token), oc (the outcome of the request:
\* "ok", "http_error", "transport", "garbage"), keep (a PATCH keeps the
\* groups its body leaves out) and fresh (the id a POST assigns).

\* AgentsUrl, with the project and the app in each other's place
AgentsUrlSwapped(project_id, app_id) ==
    <<"projects", app_id, "locations", "global", "collections",
      "default_collection", "engines", project_id, "assistants",
      "default_assistant", "agents">>

AgentsUrl(project_id, app_id) ==
    <<"projects", project_id, "locations", "global", "collections",
      "default_collection", "engines", app_id, "assistants",
      "default_assistant", "agents">>

AgentUrl(project_id, app_id, agent_id) ==
    Append(AgentsUrl(project_id, app_id), agent_id)

\* the agents of the store in the order a list request returns them
ListOf(st) ==
    LET ids == SelectSeq(IdOrder, LAMBDA i : i \in DOMAIN st)
    IN  [n \in 1..Len(ids) |-> st[ids[n]]]

\* PATCH without an update mask: every field group the body carries replaces
\* the stored one; a group the body leaves out is kept or cleared (keep).
ApplyPatch(stored, body, keep) ==
    LET Field(k) == IF k \in body.keys THEN body[k]
                    ELSE IF keep THEN stored[k] ELSE NoDoc[k]
    IN  Canon([keys |-> {}, name |-> stored.name, error |-> "",
               displayName     |-> Field("displayName"),
               description     |-> Field("description"),
               toolDescription |-> Field("toolDescription"),
               reasoningEngine |-> Field("reasoningEngine"),
               authorizations  |-> Field("authorizations"),
               icon            |-> Field("icon")])

\* The answer of the remote store to request req in store st, and the store
\* afterwards.  kind: "transport" (no answer), "http" (error status, JSON
\* error body), "ok" (2xx, JSON body), "garbage" (2xx, body that is no JSON).
Serve(req, st, e) ==
    LET inScope == req.url[2] = TheProject /\ req.url[8] = TheApp
        onItem  == Len(req.url) = 12
        id      == IF onItem THEN req.url[12] ELSE ""
        found   == IF onItem THEN inScope /\ id \in DOMAIN st
                   ELSE IF req.method = "POST"
                        THEN inScope /\ e.fresh \notin DOMAIN st
                        ELSE inScope
        kind    == IF e.oc = "garbage" THEN "garbage" ELSE "ok"
        Answer(k, status, doc, docs, st2) ==
            [kind |-> k, status |-> status, doc |-> doc, docs |-> docs,
             store |-> st2]
    IN  IF e.oc = "transport"
        THEN Answer("transport", "None", NoDoc, <<>>, st)
        ELSE IF e.oc = "http_error" \/ ~found
        THEN LET status == IF found THEN "503" ELSE "404"
             IN  Answer("http", status, ErrorBody(status), <<>>, st)
        ELSE IF req.method = "GET" /\ ~onItem
        THEN \* {"agents": [...]}, or {} when there is none to list
             Answer(kind, "200",
                    [NoDoc EXCEPT !.keys = IF ListOf(st) # <<>>
                                           THEN {"agents"} ELSE {}],
                    ListOf(st), st)
        ELSE IF req.method = "GET"
        THEN Answer(kind, "200", st[id], <<>>, st)
        ELSE IF req.method = "POST"
        THEN LET new == Canon([req.body EXCEPT !.name = e.fresh])
             IN  Answer(kind, "200", new, <<>>,
                        [i \in DOMAIN st \cup {e.fresh} |->
                            IF i = e.fresh THEN new ELSE st[i]])
        ELSE IF req.method = "PATCH"
        THEN LET new == ApplyPatch(st[id], req.body, e.keep)
             IN  Answer(kind, "200", new, <<>>, [st EXCEPT ![id] = new])
        ELSE \* DELETE
             Answer(kind, "200", NoDoc, <<>>,
                    [i \in DOMAIN st \ {id} |-> st[i]])

----------------------------------------------------------------------------
(* Requests and results *)

\* one HTTP request: headers are Authorization: Bearer <token>,
\* Content-Type: application/json and X-Goog-User-Project: <project_id>
Request(method, url, project_id, body, hasBody) ==
    [method |-> method, url |-> url, userProject |-> project_id,
     contentType |-> "application/json", body |-> body, hasBody |-> hasBody]

NoResult ==
    [raised |-> FALSE, keys |-> {}, error |-> <<>>, status_code |-> "",
     doc |-> NoDoc, docs |-> <<>>, message |-> <<>>]

\* what an invocation leaves behind: its result, the store, the requests it
\* sent, the kind of answer each got and the outcome of each
\* get_credentials() it called
Out(res, st, reqs, answ, creds) ==
    [result |-> res, store |-> st, requests |-> reqs, answers |-> answ,
     credentials |-> creds]

\* an invocation that ended before it asked for credentials
Unsent(res, st) == Out(res, st, <<>>, <<>>, <<>>)

\* Sent, with the request sent a second time
SentTwice(res, req, resp) ==
    Out(res, resp.store, <<req, req>>, <<resp.kind, resp.kind>>,
        <<"granted">>)

\* an invocation that got its token, sent req and got resp
Sent(res, req, resp) ==
    Out(res, resp.store, <<req>>, <<resp.kind>>, <<"granted">>)

\* an exception that leaves the operation
Raise(msg) == [NoResult EXCEPT !.raised = TRUE, !.error = msg]

\* {"error": msg}
ErrorDict(msg) == [NoResult EXCEPT !.keys = {"error"}, !.error = msg]

\* get_credentials() raised: {"error": f"Authentication failed: {str(e)}"}
AuthenticationFailed ==
    ErrorDict(<<"Authentication failed: ", "DefaultCredentialsError">>)

\* Denied, dropping the detail of the provider's failure
DeniedWithoutDetail(st) ==
    Out(ErrorDict(<<"Authentication failed: ">>), st, <<>>, <<>>, <<"failed">>)

\* an invocation whose get_credentials() raised: nothing is sent
Denied(st) == Out(AuthenticationFailed, st, <<>>, <<>>, <<"failed">>)

\* Missing, reporting the first missing parameter only
MissingFirstOnly(params, required) ==
    LET missing == SelectSeq(required, LAMBDA k : ~Truthy(params[k]))
    IN  IF missing = <<>> THEN <<>> ELSE <<missing[1]>>

\* missing = [param for param in required if not params.get(param)]
Missing(params, required) ==
    SelectSeq(required, LAMBDA k : ~Truthy(params[k]))

\* raise ValueError(f"Missing required parameters: {', '.join(missing)}")
MissingParameters(missing) ==
    Raise(<<"Missing required parameters: ">> \o missing)

CreateRequired ==
    <<"project_id", "app_id", "display_name", "description",
      "tool_description", "adk_deployment_id">>

\* ReasoningEnginePath, with the location of the reasoning engines listing
ReasoningEnginePathRegional(project_id, adk_deployment_id) ==
    <<"projects", project_id, "locations", "us-central1", "reasoningEngines",
      adk_deployment_id>>

\* f"projects/{project_id}/locations/global/reasoningEngines/{adk_deployment_id}"
ReasoningEnginePath(project_id, adk_deployment_id) ==
    <<"projects", project_id, "locations", "global", "reasoningEngines",
      adk_deployment_id>>

\* f"projects/{project_id}/locations/global/authorizations/{auth_id}"
AuthorizationPath(project_id, auth_id) ==
    <<"projects", project_id, "locations", "global", "authorizations",
      auth_id>>

\* CreateBody, building the authorization path whether or not auth_id is set
CreateBodyAlwaysAuthorized(a) ==
    [NoDoc EXCEPT
        !.keys = {"displayName", "description", "toolDescription",
                  "reasoningEngine", "authorizations"}
                 \cup (IF Truthy(a.icon_uri) THEN {"icon"} ELSE {}),
        !.displayName     = a.display_name,
        !.description     = a.description,
        !.toolDescription = a.tool_description,
        !.reasoningEngine =
            ReasoningEnginePath(a.project_id, a.adk_deployment_id),
        !.authorizations  = <<AuthorizationPath(a.project_id, a.auth_id)>>,
        !.icon = IF Truthy(a.icon_uri) THEN IconGroup(a.icon_uri) ELSE {}]

\* the request body of create: data
CreateBody(a) ==
    [NoDoc EXCEPT
        !.keys = {"displayName", "description", "toolDescription",
                  "reasoningEngine", "authorizations"}
                 \cup (IF Truthy(a.icon_uri) THEN {"icon"} ELSE {}),
        !.displayName     = a.display_name,
        !.description     = a.description,
        !.toolDescription = a.tool_description,
        !.reasoningEngine =
            ReasoningEnginePath(a.project_id, a.adk_deployment_id),
        !.authorizations  =
            IF Truthy(a.auth_id)
            THEN <<AuthorizationPath(a.project_id, a.auth_id)>> ELSE <<>>,
        !.icon = IF Truthy(a.icon_uri) THEN IconGroup(a.icon_uri) ELSE {}]

\* the except clause every operation of util.py ends with:
\*   except requests.exceptions.RequestException as e:
\*       return {"error": f"Request failed: {str(e)}",
\*               "status_code": response.status_code if 'response' in locals() else None}
\* A 2xx body that is no JSON makes response.json() raise
\* requests.exceptions.JSONDecodeError, a RequestException (requests 2.27 and
\* later), which the clause catches with the response in hand.
RequestsFailure(resp) ==
    LET Failed(what, status) ==
            [NoResult EXCEPT !.keys = {"error", "status_code"},
                             !.error = <<"Request failed: ", what>>,
                             !.status_code = status]
    IN  IF resp.kind = "transport" THEN Failed("ConnectionError", "None")
        ELSE IF resp.kind = "http" THEN Failed(resp.status, resp.status)
        ELSE Failed("JSONDecodeError", resp.status)

\* subprocess.run(["curl", ...]).returncode: curl is run without --fail, so
\* it exits 0 whenever the server answered, whatever the HTTP status
ReturnCode(resp) == IF resp.kind = "transport" THEN "7" ELSE "0"

\* json.loads(result.stdout) succeeds on every JSON body, error bodies too
Decodes(resp) == resp.kind \in {"ok", "http"}

CurlKeys == {"status_code", "stdout", "stderr"}

----------------------------------------------------------------------------
(* src/util.py: the client over the requests library *)

add_agent(a, e, st) ==
    LET missing == Missing(a, CreateRequired)
        req  == Request("POST", AgentsUrl(a.project_id, a.app_id),
                        a.project_id, CreateBody(a), TRUE)
        resp == Serve(req, st, e)
    IN  IF missing # <<>> THEN Unsent(MissingParameters(missing), st)
        ELSE IF ~e.auth THEN Denied(st)
        ELSE IF resp.kind = "ok"
        THEN Sent([NoResult EXCEPT !.keys = {"status_code", "data"},
                                   !.status_code = resp.status,
                                   !.doc = resp.doc], req, resp)
        ELSE Sent(RequestsFailure(resp), req, resp)

\* AgentsOf, indexing the decoded answer: data["agents"]
AgentsOfIndexed(data, agents) ==
    IF "agents" \in data.keys
    THEN [NoResult EXCEPT !.keys = {"agents"}, !.docs = agents]
    ELSE Raise(<<"KeyError: ", "agents">>)

\* {"agents": data.get("agents", [])}: data is the decoded answer, agents
\* the value under its key "agents"
AgentsOf(data, agents) ==
    [NoResult EXCEPT !.keys = {"agents"},
        !.docs = IF "agents" \in data.keys THEN agents ELSE <<>>]

list_agents(a, e, st) ==
    LET req  == Request("GET", AgentsUrl(a.project_id, a.app_id),
                        a.project_id, NoDoc, FALSE)
        resp == Serve(req, st, e)
    IN  IF ~e.auth THEN Denied(st)
        ELSE IF resp.kind = "ok"
        THEN Sent(AgentsOf(resp.doc, resp.docs), req, resp)
        ELSE Sent(RequestsFailure(resp), req, resp)

get_agent(a, e, st) ==
    LET req  == Request("GET", AgentUrl(a.project_id, a.app_id, a.agent_id),
                        a.project_id, NoDoc, FALSE)
        resp == Serve(req, st, e)
    IN  IF ~e.auth THEN Denied(st)
        ELSE IF resp.kind = "ok"
        THEN Sent([NoResult EXCEPT !.keys = {"agent_details"},
                                   !.doc = resp.doc], req, resp)
        ELSE Sent(RequestsFailure(resp), req, resp)

\* The merge of update_agent, from "Prepare updated data" to updated_data
\* complete; the text is the same in util.py and in
\* as_agent_registry_service.py.

\* MergedField, taking every supplied string, the empty one too
MergedFieldIfNotNone(supplied, existing_agent, key) ==
    IF supplied # PyNone THEN supplied ELSE DictGet(existing_agent, key, "")

\* display_name or existing_agent.get("displayName", "")   (and description)
MergedField(supplied, existing_agent, key) ==
    IF Truthy(supplied) THEN supplied ELSE DictGet(existing_agent, key, "")

\* MergedToolDescription, without the fallback to the current value
MergedToolDescriptionNoFallback(existing_agent, tool_description) ==
    IF Truthy(tool_description) THEN tool_description ELSE ""

\* tool_description or existing_tool.get("toolDescription", "")
MergedToolDescription(existing_agent, tool_description) ==
    LET existing_tool == DictGet(existing_agent, "toolDescription", "")
    IN  IF Truthy(tool_description) THEN tool_description ELSE existing_tool

\* MergedReasoningEngine, composing the resource path as create does
MergedReasoningEngineComposed(existing_agent, adk_deployment_id) ==
    LET existing_reasoning == DictGet(existing_agent, "reasoningEngine", <<>>)
    IN  IF Truthy(adk_deployment_id)
        THEN <<"projects", TheProject, "locations", "global",
               "reasoningEngines", adk_deployment_id>>
        ELSE existing_reasoning

\* adk_deployment_id or existing_reasoning
MergedReasoningEngine(existing_agent, adk_deployment_id) ==
    LET existing_reasoning == DictGet(existing_agent, "reasoningEngine", <<>>)
    IN  IF Truthy(adk_deployment_id) THEN Text(adk_deployment_id)
        ELSE existing_reasoning

\* MergedAuthorizations, appending to the current sequence
MergedAuthorizationsAppended(existing_agent, auth_id) ==
    LET existing_auths == DictGet(existing_agent, "authorizations", <<>>)
    IN  IF Truthy(auth_id) THEN Append(existing_auths, Text(auth_id))
        ELSE existing_auths

\* [auth_id] if auth_id else existing_auths
MergedAuthorizations(existing_agent, auth_id) ==
    LET existing_auths == DictGet(existing_agent, "authorizations", <<>>)
    IN  IF Truthy(auth_id) THEN <<Text(auth_id)>> ELSE existing_auths

\* MergedIcon, without the branch that retains the current icon
MergedIconNotRetained(existing_agent, icon_uri) ==
    IF Truthy(icon_uri) THEN IconGroup(icon_uri) ELSE {}

\* the icon group of updated_data, {} when updated_data gets no "icon";
\* existing_agent.get("icon") is None when absent: None and {} are both falsy
MergedIcon(existing_agent, icon_uri) ==
    LET existing_icon == DictGet(existing_agent, "icon", {})
    IN  IF Truthy(icon_uri) THEN IconGroup(icon_uri)
        ELSE IF existing_icon # {} THEN existing_icon
        ELSE {}

\* MergeUpdatedData, carrying only the groups the caller supplied
MergeUpdatedDataSuppliedOnly(existing_agent, a) ==
    [NoDoc EXCEPT
        !.keys = (IF Truthy(a.display_name) THEN {"displayName"} ELSE {})
                 \cup (IF Truthy(a.description) THEN {"description"} ELSE {})
                 \cup (IF Truthy(a.tool_description)
                       THEN {"toolDescription"} ELSE {})
                 \cup (IF Truthy(a.adk_deployment_id)
                       THEN {"reasoningEngine"} ELSE {})
                 \cup (IF Truthy(a.auth_id) THEN {"authorizations"} ELSE {})
                 \cup (IF Truthy(a.icon_uri) THEN {"icon"} ELSE {}),
        !.displayName = IF Truthy(a.display_name) THEN a.display_name ELSE "",
        !.description = IF Truthy(a.description) THEN a.description ELSE "",
        !.toolDescription =
            IF Truthy(a.tool_description) THEN a.tool_description ELSE "",
        !.reasoningEngine =
            IF Truthy(a.adk_deployment_id) THEN Text(a.adk_deployment_id)
            ELSE <<>>,
        !.authorizations =
            IF Truthy(a.auth_id) THEN <<Text(a.auth_id)>> ELSE <<>>,
        !.icon = IF Truthy(a.icon_uri) THEN IconGroup(a.icon_uri) ELSE {}]

\* updated_data.  On the wire the groups are spelled adk_agent_definition,
\* tool_settings.tool_description and
\* provisionedReasoningEngine.reasoning_engine.
MergeUpdatedData(existing_agent, a) ==
    LET icon == MergedIcon(existing_agent, a.icon_uri)
    IN  [NoDoc EXCEPT
            !.keys = {"displayName", "description", "toolDescription",
                      "reasoningEngine", "authorizations"}
                     \cup (IF icon # {} THEN {"icon"} ELSE {}),
            !.displayName =
                MergedField(a.display_name, existing_agent, "displayName"),
            !.description =
                MergedField(a.description, existing_agent, "description"),
            !.toolDescription =
                MergedToolDescription(existing_agent, a.tool_description),
            !.reasoningEngine =
                MergedReasoningEngine(existing_agent, a.adk_deployment_id),
            !.authorizations =
                MergedAuthorizations(existing_agent, a.auth_id),
            !.icon = icon]

\* update_agent after updated_data is complete: credentials, PATCH, result
update_agent_patch(a, updated_data, e, st) ==
    LET req  == Request("PATCH", AgentUrl(a.project_id, a.app_id, a.agent_id),
                        a.project_id, updated_data, TRUE)
        resp == Serve(req, st, e)
    IN  IF ~e.auth THEN Denied(st)
        ELSE IF resp.kind = "ok"
        THEN Sent([NoResult EXCEPT !.keys = {"status_code", "updated_agent"},
                                   !.status_code = resp.status,
                                   !.doc = resp.doc], req, resp)
        ELSE Sent(RequestsFailure(resp), req, resp)

\* FirstByDisplayName, letting a later match replace an earlier one
LastByDisplayName(agents, display_name) ==
    LET hits == SelectSeq(agents,
                    LAMBDA g : "displayName" \in g.keys
                               /\ g.displayName = display_name)
    IN  IF hits # <<>>
        THEN [NoResult EXCEPT !.keys = {"agent"}, !.doc = hits[Len(hits)]]
        ELSE [NoResult EXCEPT !.keys = {"message"},
                 !.message = <<"Agent with display name '", display_name,
                               "' not found.">>]

\* for agent in agents: if agent.get("displayName") == display_name: return
\* {"agent": agent}; else the not-found message
FirstByDisplayName(agents, display_name) ==
    LET hits == SelectSeq(agents,
                    LAMBDA g : "displayName" \in g.keys
                               /\ g.displayName = display_name)
    IN  IF hits # <<>>
        THEN [NoResult EXCEPT !.keys = {"agent"}, !.doc = hits[1]]
        ELSE [NoResult EXCEPT !.keys = {"message"},
                 !.message = <<"Agent with display name '", display_name,
                               "' not found.">>]

get_agent_by_display_name(a, e, st) ==
    LET missing == Missing(a, <<"project_id", "app_id", "display_name">>)
        listed  == list_agents(a, e, st)
    IN  IF missing # <<>> THEN Unsent(MissingParameters(missing), st)
        ELSE IF listed.result.raised \/ "error" \in listed.result.keys
        THEN listed
        ELSE [listed EXCEPT !.result =
                  FirstByDisplayName(listed.result.docs, a.display_name)]

\* delete_agent, checking its parameters after the request is sent
delete_agent_checking_late(a, e, st) ==
    LET missing == Missing(a, <<"project_id", "app_id", "agent_id">>)
        req  == Request("DELETE", AgentUrl(a.project_id, a.app_id, a.agent_id),
                        a.project_id, NoDoc, FALSE)
        resp == Serve(req, st, e)
    IN  IF ~e.auth THEN Denied(st)
        ELSE IF missing # <<>> THEN Sent(MissingParameters(missing), req, resp)
        ELSE IF resp.kind \in {"ok", "garbage"}
        THEN Sent([NoResult EXCEPT !.keys = {"status_code", "message"},
                      !.status_code = resp.status,
                      !.message = <<"Agent ", a.agent_id,
                                    " deleted successfully.">>], req, resp)
        ELSE Sent(RequestsFailure(resp), req, resp)

delete_agent(a, e, st) ==
    LET missing == Missing(a, <<"project_id", "app_id", "agent_id">>)
        req  == Request("DELETE", AgentUrl(a.project_id, a.app_id, a.agent_id),
                        a.project_id, NoDoc, FALSE)
        resp == Serve(req, st, e)
    IN  IF missing # <<>> THEN Unsent(MissingParameters(missing), st)
        ELSE IF ~e.auth THEN Denied(st)
        ELSE IF resp.kind \in {"ok", "garbage"}
        THEN \* the body of the answer is never decoded
             Sent([NoResult EXCEPT !.keys = {"status_code", "message"},
                      !.status_code = resp.status,
                      !.message = <<"Agent ", a.agent_id,
                                    " deleted successfully.">>], req, resp)
        ELSE Sent(RequestsFailure(resp), req, resp)

----------------------------------------------------------------------------
(* src/as_agent_registry_service.py: the client over a curl subprocess *)

create_agent(a, e, st) ==
    LET missing == Missing(a, CreateRequired)
        req  == Request("POST", AgentsUrl(a.project_id, a.app_id),
                        a.project_id, CreateBody(a), TRUE)
        resp == Serve(req, st, e)
        base == [NoResult EXCEPT !.keys = CurlKeys,
                                 !.status_code = ReturnCode(resp)]
    IN  IF missing # <<>> THEN Unsent(MissingParameters(missing), st)
        ELSE IF ~e.auth THEN Denied(st)
        ELSE IF ReturnCode(resp) = "0" /\ Decodes(resp)
        THEN Sent([base EXCEPT !.keys = CurlKeys \cup {"agent"},
                               !.doc = resp.doc], req, resp)
        ELSE IF ReturnCode(resp) = "0"
        THEN Sent([base EXCEPT !.keys = CurlKeys \cup {"error"},
                      !.error = <<"Could not decode JSON response.">>],
                  req, resp)
        ELSE Sent(base, req, resp)

\* _check_required_params runs after subprocess.run: the request is sent
\* before a missing parameter raises
svc_list_agents(a, e, st) ==
    LET missing == Missing(a, <<"project_id", "app_id">>)
        req  == Request("GET", AgentsUrl(a.project_id, a.app_id),
                        a.project_id, NoDoc, FALSE)
        resp == Serve(req, st, e)
    IN  IF ~e.auth THEN Denied(st)
        ELSE IF missing # <<>> THEN Sent(MissingParameters(missing), req, resp)
        ELSE IF ReturnCode(resp) = "0" /\ Decodes(resp)
        THEN \* "agents" in agents_data ? agents_data["agents"] : []
             Sent([NoResult EXCEPT !.keys = {"agents"},
                      !.docs = IF "agents" \in resp.doc.keys
                               THEN resp.docs ELSE <<>>],
                  req, resp)
        ELSE IF ReturnCode(resp) = "0"
        THEN Sent([NoResult EXCEPT !.keys = {"error", "stderr"},
                      !.error = <<"Could not decode JSON response.">>],
                  req, resp)
        ELSE Sent([NoResult EXCEPT !.keys = {"error", "stderr"},
                      !.error = <<"Error during agent listing">>], req, resp)

svc_get_agent(a, e, st) ==
    LET missing == Missing(a, <<"project_id", "app_id", "agent_id">>)
        req  == Request("GET", AgentUrl(a.project_id, a.app_id, a.agent_id),
                        a.project_id, NoDoc, FALSE)
        resp == Serve(req, st, e)
    IN  IF ~e.auth THEN Denied(st)
        ELSE IF missing # <<>> THEN Sent(MissingParameters(missing), req, resp)
        ELSE IF ReturnCode(resp) = "0" /\ Decodes(resp)
        THEN Sent([NoResult EXCEPT !.keys = {"agent_details"},
                                   !.doc = resp.doc], req, resp)
        ELSE IF ReturnCode(resp) = "0"
        THEN Sent([NoResult EXCEPT !.keys = {"error", "stderr"},
                      !.error = <<"Could not decode JSON response.">>],
                  req, resp)
        ELSE Sent(ErrorDict(<<"Error: ", ReturnCode(resp), " - ", "stderr">>),
                  req, resp)

\* update_agent after updated_data is complete: credentials, PATCH, result
svc_update_agent_patch(a, updated_data, e, st) ==
    LET req  == Request("PATCH", AgentUrl(a.project_id, a.app_id, a.agent_id),
                        a.project_id, updated_data, TRUE)
        resp == Serve(req, st, e)
        base == [NoResult EXCEPT !.keys = CurlKeys,
                                 !.status_code = ReturnCode(resp)]
    IN  IF ~e.auth THEN Denied(st)
        ELSE IF ReturnCode(resp) = "0" /\ Decodes(resp)
        THEN Sent([base EXCEPT !.keys = CurlKeys \cup {"updated_agent"},
                               !.doc = resp.doc], req, resp)
        ELSE IF ReturnCode(resp) = "0"
        THEN Sent([base EXCEPT !.keys = CurlKeys \cup {"error"},
                      !.error = <<"Could not decode JSON response for updated agent.">>],
                  req, resp)
        ELSE Sent(base, req, resp)

svc_get_agent_by_display_name(a, e, st) ==
    LET missing == Missing(a, <<"project_id", "app_id", "display_name">>)
        listed  == svc_list_agents(a, e, st)
    IN  IF missing # <<>> THEN Unsent(MissingParameters(missing), st)
        ELSE IF listed.result.raised \/ "error" \in listed.result.keys
        THEN listed
        ELSE [listed EXCEPT !.result =
                  FirstByDisplayName(listed.result.docs, a.display_name)]

\* svc_delete_agent, with a confirmation that does not name the agent
svc_delete_agent_unnamed(a, e, st) ==
    LET missing == Missing(a, <<"project_id", "app_id", "agent_id">>)
        req  == Request("DELETE", AgentUrl(a.project_id, a.app_id, a.agent_id),
                        a.project_id, NoDoc, FALSE)
        resp == Serve(req, st, e)
        base == [NoResult EXCEPT !.keys = CurlKeys,
                                 !.status_code = ReturnCode(resp)]
    IN  IF missing # <<>> THEN Unsent(MissingParameters(missing), st)
        ELSE IF ~e.auth THEN Denied(st)
        ELSE IF ReturnCode(resp) = "0"
        THEN Sent([base EXCEPT !.keys = CurlKeys \cup {"message"},
                      !.message = <<"Agent deleted successfully.">>],
                  req, resp)
        ELSE Sent([base EXCEPT !.keys = CurlKeys \cup {"error"},
                      !.error = <<"Error deleting agent: ", "stderr">>],
                  req, resp)

svc_delete_agent(a, e, st) ==
    LET missing == Missing(a, <<"project_id", "app_id", "agent_id">>)
        req  == Request("DELETE", AgentUrl(a.project_id, a.app_id, a.agent_id),
                        a.project_id, NoDoc, FALSE)
        resp == Serve(req, st, e)
        base == [NoResult EXCEPT !.keys = CurlKeys,
                                 !.status_code = ReturnCode(resp)]
    IN  IF missing # <<>> THEN Unsent(MissingParameters(missing), st)
        ELSE IF ~e.auth THEN Denied(st)
        ELSE IF ReturnCode(resp) = "0"
        THEN Sent([base EXCEPT !.keys = CurlKeys \cup {"message"},
                      !.message = <<"Agent ", a.agent_id,
                                    " deleted successfully.">>], req, resp)
        ELSE Sent([base EXCEPT !.keys = CurlKeys \cup {"error"},
                      !.error = <<"Error deleting agent: ", "stderr">>],
                  req, resp)

----------------------------------------------------------------------------
(* The operations of either client *)

Create(c, a, e, st) ==
    IF c = "requests" THEN add_agent(a, e, st) ELSE create_agent(a, e, st)

List(c, a, e, st) ==
    IF c = "requests" THEN list_agents(a, e, st) ELSE svc_list_agents(a, e, st)

Get(c, a, e, st) ==
    IF c = "requests" THEN get_agent(a, e, st) ELSE svc_get_agent(a, e, st)

Patch(c, a, updated_data, e, st) ==
    IF c = "requests" THEN update_agent_patch(a, updated_data, e, st)
    ELSE svc_update_agent_patch(a, updated_data, e, st)

Find(c, a, e, st) ==
    IF c = "requests" THEN get_agent_by_display_name(a, e, st)
    ELSE svc_get_agent_by_display_name(a, e, st)

Delete(c, a, e, st) ==
    IF c = "requests" THEN delete_agent(a, e, st)
    ELSE svc_delete_agent(a, e, st)

----------------------------------------------------------------------------
(* Arguments of an invocation and initial stores *)

Args(project_id, app_id, agent_id, display_name, description, tool_description, adk_deployment_id, auth_id, icon_uri) ==
    [project_id |-> project_id, app_id |-> app_id, agent_id |-> agent_id,
     display_name |-> display_name, description |-> description,
     tool_description |-> tool_description,
     adk_deployment_id |-> adk_deployment_id, auth_id |-> auth_id,
     icon_uri |-> icon_uri]

\* an argument given as None, as "" or as v
Given(v) == {PyNone, "", v}

\* a stored agent
Agent(id, display_name, description, tool_description, reasoning_engine, authorizations, icon) ==
    Canon([keys |-> {}, name |-> id, error |-> "",
           displayName |-> display_name, description |-> description,
           toolDescription |-> tool_description,
           reasoningEngine |-> reasoning_engine,
           authorizations |-> authorizations, icon |-> icon])

\* n authorizations, as create of some earlier session stored them
Auths(n) ==
    [i \in 1..n |-> AuthorizationPath(TheProject,
                                      IF i = 1 THEN "au0" ELSE "au9")]

\* an agent with every field set, one with none, one with some
FullAgent(id) ==
    Agent(id, "D0", "E0", "T0", ReasoningEnginePath(TheProject, "dep0"),
          Auths(MaxAuths), IconGroup("ic0"))

BareAgent(id) == Agent(id, "", "", "", <<>>, <<>>, {})

SomeAgent(id) ==
    Agent(id, "D0", "", "T0", <<>>, Auths(1), {})

StoreOf(agent) == [i \in {agent.name} |-> agent]

EmptyStore == [i \in {} |-> NoDoc]

\* a store with two agents of the same display name
TwinStore ==
    [i \in AgentIds |-> IF i = "a1" THEN FullAgent(i) ELSE SomeAgent(i)]

InitStores ==
    {StoreOf(FullAgent("a1")), StoreOf(BareAgent("a1")),
     StoreOf(SomeAgent("a1")), EmptyStore, TwinStore}

\* every create call
CreateCalls ==
    {Args(p, app, PyNone, dn, de, td, dep, au, ic) :
        p \in Given(TheProject), app \in Given(TheApp), dn \in Given("D1"),
        de \in Given("E1"), td \in Given("T1"), dep \in Given("dep1"),
        au \in Given("au1"), ic \in {PyNone, "ic1"}}

\* every update call on the scope of the store
UpdateCalls ==
    {Args(TheProject, TheApp, id, dn, de, td, dep, au, ic) :
        id \in AgentIds, dn \in Given("D1"), de \in Given("E1"),
        td \in Given("T1"), dep \in Given("dep1"), au \in Given("au1"),
        ic \in Given("ic1")}

\* every list, get or delete call
KeyCalls ==
    {Args(p, app, id, PyNone, PyNone, PyNone, PyNone, PyNone, PyNone) :
        p \in Given(TheProject), app \in Given(TheApp),
        id \in Given("a1") \cup {"a2"}}

\* every find-by-display-name call
FindCalls ==
    {Args(p, app, PyNone, dn, PyNone, PyNone, PyNone, PyNone, PyNone) :
        p \in Given(TheProject), app \in Given(TheApp),
        dn \in Given("D0") \cup {"d0", "D1"}}

\* the calls of a session: create, update, get, delete on one scope
SessionCreateCalls ==
    {Args(TheProject, TheApp, PyNone, "D1", de, "T1", "dep1", PyNone, ic) :
        de \in {"", "E1"}, ic \in {PyNone, "ic1"}}

SessionUpdateCalls ==
    {Args(TheProject, TheApp, id, PyNone, de, "", PyNone, au, PyNone) :
        id \in AgentIds, de \in {PyNone, "E1"}, au \in {PyNone, "au1"}}

SessionKeyCalls ==
    {Args(TheProject, TheApp, id, PyNone, PyNone, PyNone, PyNone, PyNone,
          PyNone) : id \in AgentIds}

SessionFindCalls ==
    {Args(TheProject, TheApp, PyNone, dn, PyNone, PyNone, PyNone, PyNone,
          PyNone) : dn \in {"D0", "D1"}}

\* the ids the store may assign to a created agent
FreshIds(st) ==
    IF AgentIds \ DOMAIN st = {} THEN {"a1"} ELSE AgentIds \ DOMAIN st

\* The environments of one request of the given method to store st: the
\* credentials fail, or they are granted and the request gets one of the
\* outcomes.  keep matters to a PATCH that is applied, fresh to a POST.
EnvsOf(st, method) ==
    LET Env(auth, oc, keep, fresh) ==
            [auth |-> auth, oc |-> oc, keep |-> keep, fresh |-> fresh]
    IN  {Env(FALSE, "ok", TRUE, "a1")}
        \cup {Env(TRUE, oc, TRUE, "a1") : oc \in {"http_error", "transport"}}
        \cup {Env(TRUE, oc, keep, fresh) :
                oc \in {"ok", "garbage"},
                keep \in IF method = "PATCH" THEN BOOLEAN ELSE {TRUE},
                fresh \in IF method = "POST" THEN FreshIds(st) ELSE {"a1"}}

----------------------------------------------------------------------------
(* src/app2.py: the in-memory category store *)

\* most categories created in one behaviour
MaxCategories == 3

\* the "id" of the apps of agentspace_apps_db
AppDbIds == {1, 2, 3, 4}

\* the <int:app_db_id> of a request: two apps of the store and an unknown one
RequestedAppIds == {1, 2, 9}

\* the worker threads of the server
Threads == {1, 2}

\* request.json of an add request: without 'name', or with it
Bodies == {[hasName |-> FALSE, name |-> ""], [hasName |-> TRUE, name |-> "n1"]}

NoCategory == [id |-> 0, name |-> "", details |-> ""]

\* agentspace_apps_db as the module defines it: no app has a category
NoCategories == [i \in AppDbIds |-> <<>>]

\* a worker thread that handles no request
IdleHandler ==
    [pc |-> "idle", route |-> "none", app_db_id |-> 0, category_id |-> 0,
     json |-> [hasName |-> FALSE, name |-> ""], new_category |-> NoCategory,
     loaded |-> 0, filtered |-> <<>>, status |-> 0,
     db0 |-> NoCategories, next0 |-> 0]

\* the module is loaded: next_category_id = 1
CategoryStoreLoaded ==
    /\ agentspace_apps_db = NoCategories
    /\ next_category_id = 1
    /\ handlers = [t \in Threads |-> IdleHandler]
    /\ created = <<>>

\* find_agentspace_app: the app exists (otherwise abort(404))
find_agentspace_app(app_db_id) == app_db_id \in DOMAIN agentspace_apps_db

\* find_category_in_app: the app has the category (otherwise abort(404))
find_category_in_app(app_categories, category_id) ==
    \E i \in 1..Len(app_categories) : app_categories[i].id = category_id

\* HasName, accepting every body
HasNameAlways(json) == TRUE

\* not (not request.json or not 'name' in request.json)
HasName(json) == json.hasName

\* Incremented, leaving the generator where it is
IncrementedNot(n) == n

\* next_category_id += 1, on the value loaded
Incremented(n) == n + 1

\* WithoutCategory, cutting the list at the category
WithoutCategoryAndLater(app_categories, category_id) ==
    SelectSeq(app_categories, LAMBDA cat : cat.id < category_id)

\* [cat for cat in agentspace_app["categories"] if cat["id"] != category_id]
WithoutCategory(app_categories, category_id) ==
    SelectSeq(app_categories, LAMBDA cat : cat.id # category_id)

\* the threads that are in the middle of a request
Busy == {t \in Threads : handlers[t].pc \notin {"idle", "responded"}}

\* the threads whose add request has not appended its category yet
Adding == {t \in Threads : handlers[t].pc = "add_built"}

\* Thread t takes a request: the responses of the requests already answered
\* have been delivered.
Taken(t, h) ==
    [u \in Threads |->
        IF u = t THEN h
        ELSE IF handlers[u].pc = "responded" THEN IdleHandler
        ELSE handlers[u]]

\* a request as it enters its view function
Entered(route, app_db_id, category_id, json) ==
    [IdleHandler EXCEPT !.route = route, !.app_db_id = app_db_id,
                        !.category_id = category_id, !.json = json,
                        !.db0 = agentspace_apps_db,
                        !.next0 = next_category_id]

\* abort(status) or return ..., status
Responded(h, status) == [h EXCEPT !.pc = "responded", !.status = status]

\* add_category_to_app up to new_category: find_agentspace_app, the check of
\* the body, and the dict that reads next_category_id
AddCategoryRequest(inFlight) ==
    \E t \in Threads \ Busy, app_db_id \in RequestedAppIds, json \in Bodies :
        LET h == Entered("add", app_db_id, 0, json)
        IN  /\ Cardinality(Busy) < inFlight
            /\ Len(created) + Cardinality(Adding) < MaxCategories
            /\ handlers' = Taken(t,
                  IF ~find_agentspace_app(app_db_id) THEN Responded(h, 404)
                  ELSE IF ~HasName(json) THEN Responded(h, 400)
                  ELSE [h EXCEPT !.pc = "add_built",
                           !.new_category =
                               [id |-> next_category_id, name |-> json.name,
                                details |-> ""]])
            /\ UNCHANGED <<agentspace_apps_db, next_category_id, created>>
            /\ UNCHANGED registry

\* agentspace_app["categories"].append(new_category)
AddCategoryAppend ==
    \E t \in Threads :
        LET h == handlers[t]
        IN  /\ h.pc = "add_built"
            /\ agentspace_apps_db' =
                  [agentspace_apps_db EXCEPT
                      ![h.app_db_id] = Append(@, h.new_category)]
            /\ created' = Append(created, h.new_category.id)
            /\ handlers' = [handlers EXCEPT ![t].pc = "add_appended"]
            /\ UNCHANGED next_category_id
            /\ UNCHANGED registry

\* next_category_id += 1: the global is loaded ...
AddCategoryLoad ==
    \E t \in Threads :
        /\ handlers[t].pc = "add_appended"
        /\ handlers' = [handlers EXCEPT ![t].pc = "add_loaded",
                                        ![t].loaded = next_category_id]
        /\ UNCHANGED <<agentspace_apps_db, next_category_id, created>>
        /\ UNCHANGED registry

\* ... and stored incremented; return ..., 201
AddCategoryStore ==
    \E t \in Threads :
        /\ handlers[t].pc = "add_loaded"
        /\ next_category_id' = Incremented(handlers[t].loaded)
        /\ handlers' = [handlers EXCEPT ![t] = Responded(@, 201)]
        /\ UNCHANGED <<agentspace_apps_db, created>>
        /\ UNCHANGED registry

\* delete_category_from_app up to category_to_delete: find_agentspace_app
\* and find_category_in_app
DeleteCategoryRequest(inFlight) ==
    \E t \in Threads \ Busy, app_db_id \in RequestedAppIds,
       category_id \in 1..MaxCategories :
        LET h == Entered("delete", app_db_id, category_id,
                         [hasName |-> FALSE, name |-> ""])
        IN  /\ Cardinality(Busy) < inFlight
            /\ handlers' = Taken(t,
                  IF ~find_agentspace_app(app_db_id) THEN Responded(h, 404)
                  ELSE IF ~find_category_in_app(agentspace_apps_db[app_db_id],
                                                category_id)
                  THEN Responded(h, 404)
                  ELSE [h EXCEPT !.pc = "delete_found"])
            /\ UNCHANGED <<agentspace_apps_db, next_category_id, created>>
            /\ UNCHANGED registry

\* the list comprehension over agentspace_app["categories"] ...
DeleteCategoryFilter ==
    \E t \in Threads :
        LET h == handlers[t]
        IN  /\ h.pc = "delete_found"
            /\ handlers' = [handlers EXCEPT
                  ![t].pc = "delete_filtered",
                  ![t].filtered = WithoutCategory(
                      agentspace_apps_db[h.app_db_id], h.category_id)]
            /\ UNCHANGED <<agentspace_apps_db, next_category_id, created>>
            /\ UNCHANGED registry

\* ... assigned to agentspace_app["categories"]; return the message (200)
DeleteCategoryAssign ==
    \E t \in Threads :
        LET h == handlers[t]
        IN  /\ h.pc = "delete_filtered"
            /\ agentspace_apps_db' =
                  [agentspace_apps_db EXCEPT ![h.app_db_id] = h.filtered]
            /\ handlers' = [handlers EXCEPT ![t] = Responded(@, 200)]
            /\ UNCHANGED <<next_category_id, created>>
            /\ UNCHANGED registry

----------------------------------------------------------------------------
(* Actions *)

\* What the next call finds of the operation that has just returned: of an
\* update whose PATCH the store applied with no other writer in between, its
\* arguments and the PATCH body it built; of any other operation, nothing.
Returned ==
    IF /\ op.name = "update" /\ pc = "done" /\ ~touched
       /\ Len(answers) = 2 /\ answers[2] = "ok"
    THEN [name |-> "update", args |-> op.args, payload |-> payload]
    ELSE [name |-> "other",
          args |-> Args(PyNone, PyNone, PyNone, PyNone, PyNone, PyNone,
                        PyNone, PyNone, PyNone),
          payload |-> NoDoc]

\* Nothing has been called yet.  The application is built on one of the two
\* clients (app.py imports as_agent_registry_service): op.client.
Idle ==
    /\ store \in InitStores
    /\ pc = "idle"
    /\ op \in [name : {"none"}, client : Clients,
              args : {Args(PyNone, PyNone, PyNone, PyNone, PyNone, PyNone,
                           PyNone, PyNone, PyNone)}]
    /\ existing = NoResult
    /\ payload = NoDoc
    /\ before = store
    /\ touched = FALSE
    /\ requests = <<>>
    /\ answers = <<>>
    /\ credentials = <<>>
    /\ result = NoResult
    /\ previous = Returned
    /\ nops = 0
    /\ CategoryStoreLoaded

\* an operation that runs from call to return in one step
Finish(name, c, a, o) ==
    /\ op' = [name |-> name, client |-> c, args |-> a]
    /\ store' = o.store
    /\ result' = o.result
    /\ requests' = o.requests
    /\ answers' = o.answers
    /\ credentials' = o.credentials
    /\ pc' = "done"
    /\ existing' = NoResult
    /\ payload' = NoDoc
    /\ before' = store
    /\ touched' = FALSE
    /\ previous' = Returned
    /\ nops' = nops + 1
    /\ UNCHANGED categories

CreateAgent(calls, limit) ==
    /\ pc # "update_merged" /\ nops < limit
    /\ \E a \in calls, e \in EnvsOf(store, "POST") :
          Finish("create", op.client, a, Create(op.client, a, e, store))

ListAgents(calls, limit) ==
    /\ pc # "update_merged" /\ nops < limit
    /\ \E a \in calls, e \in EnvsOf(store, "GET") :
          Finish("list", op.client, a, List(op.client, a, e, store))

GetAgent(calls, limit) ==
    /\ pc # "update_merged" /\ nops < limit
    /\ \E a \in calls, e \in EnvsOf(store, "GET") :
          Finish("get", op.client, a, Get(op.client, a, e, store))

FindAgent(calls, limit) ==
    /\ pc # "update_merged" /\ nops < limit
    /\ \E a \in calls, e \in EnvsOf(store, "GET") :
          Finish("find", op.client, a, Find(op.client, a, e, store))

DeleteAgent(calls, limit) ==
    /\ pc # "update_merged" /\ nops < limit
    /\ \E a \in calls, e \in EnvsOf(store, "DELETE") :
          Finish("delete", op.client, a, Delete(op.client, a, e, store))

\* the agent exists in the scope the call addresses
Exists(args, st) ==
    /\ args.project_id = TheProject /\ args.app_id = TheApp
    /\ args.agent_id \in DOMAIN st

\* update_agent up to updated_data: get_agent, the early return, the merge
UpdateAgentGet(calls, limit) ==
    /\ pc # "update_merged" /\ nops < limit
    /\ \E a \in calls, e \in EnvsOf(store, "GET") :
          LET c == op.client
              got == Get(c, a, e, store)
              get_result == got.result
          IN  IF get_result.raised
              THEN Finish("update", c, a, got)
              ELSE IF "agent_details" \notin get_result.keys
              THEN Finish("update", c, a,
                      [got EXCEPT !.result =
                          ErrorDict(<<"Could not retrieve agent details: ">>
                                    \o get_result.error)])
              ELSE /\ op' = [name |-> "update", client |-> c, args |-> a]
                   /\ existing' = get_result
                   /\ payload' = MergeUpdatedData(get_result.doc, a)
                   /\ before' = store
                   /\ touched' = FALSE
                   /\ requests' = got.requests
                   /\ answers' = got.answers
                   /\ credentials' = got.credentials
                   /\ result' = NoResult
                   /\ store' = got.store
                   /\ pc' = "update_merged"
                   /\ previous' = Returned
                   /\ nops' = nops + 1
                   /\ UNCHANGED categories

\* update_agent from updated_data on: credentials, PATCH, result
UpdateAgentPatch ==
    /\ pc = "update_merged"
    /\ \E e \in EnvsOf(store, "PATCH") :
          LET o == Patch(op.client, op.args, payload, e, store)
          IN  /\ store' = o.store
              /\ result' = o.result
              /\ requests' = requests \o o.requests
              /\ answers' = answers \o o.answers
              /\ credentials' = credentials \o o.credentials
              /\ pc' = "done"
              /\ UNCHANGED <<op, existing, payload, before, touched, previous,
                             nops>>
              /\ UNCHANGED categories

\* another caller of the remote store writes the agent update has read
OtherWriter ==
    /\ pc = "update_merged" /\ ~touched
    /\ op.args.agent_id \in DOMAIN store
    /\ \E k \in {"description", "toolDescription"} :
          store' = [store EXCEPT ![op.args.agent_id] =
                       Canon([@ EXCEPT ![k] = "W"])]
    /\ touched' = TRUE
    /\ UNCHANGED <<pc, op, existing, payload, before, requests, answers,
                   credentials, result, previous, nops>>
    /\ UNCHANGED categories

----------------------------------------------------------------------------
(* Specifications *)

\* Spec: a session of up to MaxOps operations on the scope of the store,
\* with another writer of the same store.
Init == Idle /\ store = StoreOf(FullAgent("a1"))

Next ==
    \/ CreateAgent(SessionCreateCalls, MaxOps)
    \/ ListAgents(SessionKeyCalls, MaxOps)
    \/ GetAgent(SessionKeyCalls, MaxOps)
    \/ UpdateAgentGet(SessionUpdateCalls, MaxOps)
    \/ UpdateAgentPatch
    \/ OtherWriter
    \/ FindAgent(SessionFindCalls, MaxOps)
    \/ DeleteAgent(SessionKeyCalls, MaxOps)

Spec == Init /\ [][Next]_vars

\* SpecCall: one operation, called with every combination of arguments, on
\* each initial store.
InitCall == Idle

NextCall ==
    \/ CreateAgent(CreateCalls, 1)
    \/ ListAgents(KeyCalls, 1)
    \/ GetAgent(KeyCalls, 1)
    \/ UpdateAgentGet(UpdateCalls, 1)
    \/ UpdateAgentPatch
    \/ FindAgent(FindCalls, 1)
    \/ DeleteAgent(KeyCalls, 1)

SpecCall == InitCall /\ [][NextCall]_vars

\* SpecCategories: the category store with its requests handled one at a
\* time.
InitCategories == Idle /\ store = EmptyStore /\ op.client = "curl"

NextCategories ==
    \/ AddCategoryRequest(1)
    \/ AddCategoryAppend
    \/ AddCategoryLoad
    \/ AddCategoryStore
    \/ DeleteCategoryRequest(1)
    \/ DeleteCategoryFilter
    \/ DeleteCategoryAssign

SpecCategories == InitCategories /\ [][NextCategories]_vars

\* SpecCategoriesConcurrent: the category store with two worker threads, the
\* steps of their requests interleaved in any order.
NextCategoriesConcurrent ==
    \/ AddCategoryRequest(2)
    \/ AddCategoryAppend
    \/ AddCategoryLoad
    \/ AddCategoryStore
    \/ DeleteCategoryRequest(2)
    \/ DeleteCategoryFilter
    \/ DeleteCategoryAssign

SpecCategoriesConcurrent == InitCategories /\ [][NextCategoriesConcurrent]_vars

----------------------------------------------------------------------------
(* Properties *)

\* the arguments of the operation in progress or last finished
a == op.args

\* the requests of the given method the operation has sent
SentOf(method) == {i \in 1..Len(requests) : requests[i].method = method}

\* the operation has sent a PATCH, with this body
PatchSent == SentOf("PATCH") # {}
PatchBody == requests[CHOOSE i \in SentOf("PATCH") : TRUE].body

\* update's own GET was answered with the record (2xx and JSON)
GetSucceeded == Len(answers) >= 1 /\ answers[1] = "ok"

\* update's PATCH was applied by the store and answered with the record
PatchSucceeded == Len(answers) = 2 /\ answers[2] = "ok"

\* the fields of a stored record the request left empty or absent
Omitted ==
    {k \in ValueKeys :
        \/ k = "displayName"     /\ ~Truthy(a.display_name)
        \/ k = "description"     /\ ~Truthy(a.description)
        \/ k = "toolDescription" /\ ~Truthy(a.tool_description)
        \/ k = "reasoningEngine" /\ ~Truthy(a.adk_deployment_id)
        \/ k = "authorizations"  /\ ~Truthy(a.auth_id)
        \/ k = "icon"            /\ ~Truthy(a.icon_uri)}

\* C1 (as claimed): after an update of a stored agent that no other writer
\* touched between update's GET and PATCH and whose PATCH succeeded, every
\* field the request left empty or absent has in the stored record the value
\* it had before the update.
C1_OmittedFieldsKept ==
    (pc = "done" /\ op.name = "update" /\ Exists(a, before) /\ ~touched
        /\ PatchSucceeded)
    => \A k \in Omitted : store[a.agent_id][k] = before[a.agent_id][k]

\* C1 holds of the client over requests (util.py): there the PATCH is sent
\* only after a GET that returned the record.
C1_OmittedFieldsKeptByRequestsClient ==
    op.client = "requests" => C1_OmittedFieldsKept

\* C2 (as claimed): whenever update's own get fails, update returns
\* {"error": "Could not retrieve agent details: <inner error>"}, sends no
\* PATCH and leaves the remote store unchanged.
C2_NoPatchAfterFailedGet ==
    (op.name = "update" /\ ~GetSucceeded)
    => /\ pc = "done"
       /\ ~result.raised
       /\ result.keys = {"error"}
       /\ Len(result.error) > 1
       /\ result.error[1] = "Could not retrieve agent details: "
       /\ ~PatchSent
       /\ store = before

\* C2 holds of the client over requests (util.py).
C2_NoPatchAfterFailedGetByRequestsClient ==
    op.client = "requests" => C2_NoPatchAfterFailedGet

\* the record update's own get returned (existing_agent)
existing_agent == existing.doc

\* C3: the tool_description of the PATCH body is the caller's when that is
\* non-empty, otherwise the one of the record get returned, otherwise "".
C3_ToolDescriptionOfPatch ==
    (op.name = "update" /\ PatchSent)
    => /\ "toolDescription" \in PatchBody.keys
       /\ PatchBody.toolDescription =
            IF a.tool_description \notin {PyNone, ""} THEN a.tool_description
            ELSE IF "toolDescription" \in existing_agent.keys
                 THEN existing_agent.toolDescription
            ELSE ""

\* C3 witness: tool_description omitted, the record holds "T0", and the
\* PATCH carries "T0".
C3_OmissionPreserves ==
    /\ op.name = "update" /\ PatchSent
    /\ a.tool_description = PyNone
    /\ existing_agent.toolDescription = "T0"
    /\ PatchBody.toolDescription = "T0"

\* C4: with auth_id absent or empty the PATCH body carries the authorizations
\* of the record get returned, verbatim; with auth_id = X it carries exactly
\* the one-element sequence [X].
C4_AuthorizationsReplacedOrKept ==
    (op.name = "update" /\ PatchSent)
    => /\ "authorizations" \in PatchBody.keys
       /\ a.auth_id \in {PyNone, ""}
            => PatchBody.authorizations =
                 IF "authorizations" \in existing_agent.keys
                 THEN existing_agent.authorizations ELSE <<>>
       /\ a.auth_id \notin {PyNone, ""}
            => /\ Len(PatchBody.authorizations) = 1
               /\ PatchBody.authorizations[1] = <<a.auth_id>>

\* C4 witness: auth_id given on a record that holds several authorizations;
\* the PATCH carries the given one alone.
C4_ReplacesLongerSequence ==
    /\ op.name = "update" /\ PatchSent
    /\ a.auth_id = "au1"
    /\ Len(existing_agent.authorizations) >= 2
    /\ PatchBody.authorizations = << <<"au1">> >>

\* C5: the PATCH body carries icon {uri: icon_uri} when the caller gives
\* icon_uri, the icon group of the record get returned when the caller gives
\* none and the record has one, and no icon at all otherwise.
C5_IconOfPatch ==
    (op.name = "update" /\ PatchSent)
    => IF a.icon_uri \notin {PyNone, ""}
       THEN "icon" \in PatchBody.keys
            /\ PatchBody.icon = {<<"uri", a.icon_uri>>}
       ELSE IF "icon" \in existing_agent.keys
       THEN "icon" \in PatchBody.keys
            /\ PatchBody.icon = existing_agent.icon
       ELSE "icon" \notin PatchBody.keys

\* C5 witness: no icon_uri given, the record has an icon, the PATCH retains it.
C5_RetainsExistingIcon ==
    /\ op.name = "update" /\ PatchSent
    /\ a.icon_uri = PyNone
    /\ "icon" \in existing_agent.keys
    /\ "icon" \in PatchBody.keys
    /\ PatchBody.icon = {<<"uri", "ic0">>}

\* C6: display_name and description of the PATCH body are the caller's value
\* when non-empty, otherwise the value of the record get returned, and ""
\* when that record has no such field.
C6_TopLevelFieldsOfPatch ==
    (op.name = "update" /\ PatchSent)
    => /\ {"displayName", "description"} \subseteq PatchBody.keys
       /\ PatchBody.displayName =
            IF a.display_name \notin {PyNone, ""} THEN a.display_name
            ELSE IF "displayName" \in existing_agent.keys
                 THEN existing_agent.displayName
            ELSE ""
       /\ PatchBody.description =
            IF a.description \notin {PyNone, ""} THEN a.description
            ELSE IF "description" \in existing_agent.keys
                 THEN existing_agent.description
            ELSE ""

\* C6 witness: description given, display_name omitted; the PATCH carries the
\* new description and the display name of the record.
C6_OverridesOneKeepsOther ==
    /\ op.name = "update" /\ PatchSent
    /\ a.description = "E1" /\ a.display_name = ""
    /\ existing_agent.displayName = "D0"
    /\ PatchBody.description = "E1" /\ PatchBody.displayName = "D0"

\* the required create fields that are empty or absent in the call
MissingOfCreate ==
    {k \in {"project_id", "app_id", "display_name", "description",
            "tool_description", "adk_deployment_id"} : a[k] \in {PyNone, ""}}

\* the field names a missing-parameter error names
Named == {result.error[i] : i \in 2..Len(result.error)}

\* C7: create with a non-empty set of required fields missing fails with a
\* missing-parameter error that names exactly those fields.
C7_CreateNamesExactlyTheMissing ==
    (pc = "done" /\ op.name = "create" /\ MissingOfCreate # {})
    => /\ result.raised \/ "error" \in result.keys
       /\ result.error[1] = "Missing required parameters: "
       /\ Named = MissingOfCreate
       /\ Len(result.error) = 1 + Cardinality(MissingOfCreate)
       /\ requests = <<>>

\* C7 witness: create with app_id and description missing names both.
C7_TwoMissingBothNamed ==
    /\ pc = "done" /\ op.name = "create"
    /\ MissingOfCreate = {"app_id", "description"}
    /\ result.error = <<"Missing required parameters: ", "app_id",
                        "description">>

\* C8: the creation request carries reasoning_engine_ref
\* projects/{project_id}/locations/global/reasoningEngines/{deployment_id}.
C8_CreateComposesReasoningEngineRef ==
    \A i \in SentOf("POST") :
        /\ "reasoningEngine" \in requests[i].body.keys
        /\ requests[i].body.reasoningEngine =
             <<"projects", a.project_id, "locations", "global",
               "reasoningEngines", a.adk_deployment_id>>

\* C8 witness: create for project p1 and deployment dep1 sent its request.
C8_CreateSent ==
    /\ op.name = "create" /\ SentOf("POST") # {}
    /\ a.project_id = "p1" /\ a.adk_deployment_id = "dep1"
    /\ requests[1].body.reasoningEngine[6] = "dep1"

\* C9 (as claimed): no registry operation raises to its caller.
C9_NothingRaises == ~result.raised

\* C9 holds of every call that passes no empty or absent required parameter.
C9_NothingRaisesWithParameters ==
    result.raised
    => \E k \in DOMAIN a : a[k] \in {PyNone, ""}
                           /\ result.error[1] = "Missing required parameters: "

\* get addressed an agent_id that does not exist in its scope
GetOfAbsentAgent ==
    /\ pc = "done" /\ op.name = "get"
    /\ a.project_id = TheProject /\ a.app_id = TheApp
    /\ a.agent_id \notin {PyNone, ""} \cup DOMAIN before

\* C10 (as claimed): get of an agent_id that does not exist in the scope
\* returns an error result, carrying the not-found failure whenever the store
\* answered, and never a record.
C10_GetOfAbsentAgentIsError ==
    GetOfAbsentAgent
    => /\ ~result.raised
       /\ "error" \in result.keys
       /\ "agent_details" \notin result.keys
       /\ answers = <<"http">> => "404" \in Named

\* C10 holds of the client over requests (util.py).
C10_GetOfAbsentAgentIsErrorByRequestsClient ==
    op.client = "requests" => C10_GetOfAbsentAgentIsError

\* the key parts of delete that are empty or absent in the call
MissingOfDelete ==
    {k \in {"project_id", "app_id", "agent_id"} : a[k] \in {PyNone, ""}}

\* C11: delete called with project_id, app_id or agent_id empty or absent
\* fails with a missing-parameter error before it asks for credentials and
\* before it sends any request, and the store is unchanged.
C11_DeleteChecksParametersFirst ==
    (pc = "done" /\ op.name = "delete" /\ MissingOfDelete # {})
    => /\ result.raised \/ "error" \in result.keys
       /\ result.error[1] = "Missing required parameters: "
       /\ Named = MissingOfDelete
       /\ credentials = <<>>
       /\ requests = <<>>
       /\ store = before

\* C11 witness: delete without agent_id on a store that holds an agent fails
\* naming agent_id, and the agent is still stored.
C11_DeleteWithoutAgentId ==
    /\ pc = "done" /\ op.name = "delete"
    /\ a.project_id = TheProject /\ a.app_id = TheApp /\ a.agent_id = ""
    /\ result.error = <<"Missing required parameters: ", "agent_id">>
    /\ requests = <<>> /\ credentials = <<>>
    /\ "a1" \in DOMAIN store

\* the parts of a message
PartsOf(message) == {message[i] : i \in 1..Len(message)}

\* C12: a delete whose DELETE request succeeded returns a confirmation
\* message that contains the agent_id of the call, and DELETE is the only
\* request it sent.
C12_DeleteConfirmsWithoutVerifying ==
    (pc = "done" /\ op.name = "delete" /\ Len(answers) >= 1
        /\ answers[1] \in {"ok", "garbage"})
    => /\ ~result.raised
       /\ "message" \in result.keys /\ "error" \notin result.keys
       /\ a.agent_id \in PartsOf(result.message)
       /\ Len(requests) = 1 /\ requests[1].method = "DELETE"

\* C12 witness: delete of the stored agent a1 removed it and confirmed "a1"
\* after a single DELETE.
C12_DeletedAndConfirmed ==
    /\ pc = "done" /\ op.name = "delete" /\ answers = <<"ok">>
    /\ a.agent_id = "a1" /\ "a1" \in DOMAIN before /\ "a1" \notin DOMAIN store
    /\ result.message = <<"Agent ", "a1", " deleted successfully.">>
    /\ Len(requests) = 1

\* find returned the structured not-found result
NotFoundResult ==
    ~result.raised /\ "message" \in result.keys /\ "error" \notin result.keys

\* the records a list of the store returned that carry the queried name
Matches ==
    SelectSeq(ListOf(before),
              LAMBDA g : "displayName" \in g.keys
                         /\ g.displayName = a.display_name)

\* C13 (as claimed): find_by_display_name returns the not-found result
\* exactly when its list request succeeded and no listed record has the
\* queried display name; when its list fails it returns that error.
C13_NotFoundOnlyAfterListSucceeded ==
    (pc = "done" /\ op.name = "find")
    => /\ NotFoundResult <=> (answers = <<"ok">> /\ Matches = <<>>)
       /\ (~result.raised /\ answers # <<"ok">>)
             => ("error" \in result.keys /\ "message" \notin result.keys)

\* C13 holds of the client over requests (util.py).
C13_NotFoundOnlyAfterListSucceededByRequestsClient ==
    op.client = "requests" => C13_NotFoundOnlyAfterListSucceeded

\* C14: a record find_by_display_name returns has exactly the queried
\* display name, and it is the first such record in the order of the list.
C14_FindReturnsFirstExactMatch ==
    (pc = "done" /\ op.name = "find" /\ "agent" \in result.keys)
    => /\ "displayName" \in result.doc.keys
       /\ result.doc.displayName = a.display_name
       /\ Matches # <<>>
       /\ result.doc = Matches[1]

\* C14 witness: two stored agents are named "D0"; find of "D0" returned a1,
\* the first in list order.
C14_FirstOfTwoNamesakes ==
    /\ pc = "done" /\ op.name = "find" /\ "agent" \in result.keys
    /\ a.display_name = "D0"
    /\ Len(Matches) = 2
    /\ result.doc.name = "a1" /\ Matches[2].name = "a2"

\* the list request was answered 2xx with a JSON object that has no
\* "agents" member: the store of the scope holds no agent
AnsweredWithoutAgents ==
    answers = <<"ok">> /\ ListOf(before) = <<>>

\* C15: a list whose request was answered successfully without a records
\* collection returns the empty sequence of agents, and no error.
C15_ListWithoutCollectionIsEmpty ==
    (pc = "done" /\ op.name = "list" /\ AnsweredWithoutAgents)
    => /\ ~result.raised
       /\ result.keys = {"agents"}
       /\ result.docs = <<>>

\* C15 witness: list of an empty store, answered 200, returned no agents.
C15_EmptyStoreListed ==
    /\ pc = "done" /\ op.name = "list" /\ AnsweredWithoutAgents
    /\ op.client = "requests"
    /\ a.project_id = TheProject /\ a.app_id = TheApp
    /\ result.keys = {"agents"} /\ result.docs = <<>>

\* a get_credentials() of the operation raised
CredentialsFailed ==
    \E i \in 1..Len(credentials) : credentials[i] = "failed"

\* C16 (as claimed): whenever credential acquisition fails inside create,
\* list, get, update or delete, the operation returns exactly
\* {"error": "Authentication failed: <detail>"}.
C16_AuthenticationFailedAsIs ==
    (pc = "done" /\ op.name \in {"create", "list", "get", "update", "delete"}
        /\ CredentialsFailed)
    => /\ ~result.raised
       /\ result.keys = {"error"}
       /\ result.error =
            <<"Authentication failed: ", "DefaultCredentialsError">>

\* C16 (amended): the operation returns an error object and no record,
\* collection or confirmation; its message is "Authentication failed:
\* <detail>", preceded by "Could not retrieve agent details: " when the
\* acquisition that failed is the one of update's own get.
C16_AuthenticationFailedIsAnError ==
    (pc = "done" /\ op.name \in {"create", "list", "get", "update", "delete"}
        /\ CredentialsFailed)
    => /\ ~result.raised
       /\ result.keys = {"error"}
       /\ result.error =
            (IF op.name = "update" /\ credentials = <<"failed">>
             THEN <<"Could not retrieve agent details: ">> ELSE <<>>)
            \o <<"Authentication failed: ", "DefaultCredentialsError">>

\* C16 witness: the credentials of update's own get failed; update returned
\* the wrapped authentication error and sent nothing.
C16_UpdateDeniedAtItsGet ==
    /\ pc = "done" /\ op.name = "update" /\ credentials = <<"failed">>
    /\ requests = <<>>
    /\ result.error = <<"Could not retrieve agent details: ",
                        "Authentication failed: ", "DefaultCredentialsError">>

\* the answer to the request of create, or to the PATCH of update
WriteAnswer ==
    IF op.name = "create" /\ Len(answers) = 1 THEN answers[1]
    ELSE IF op.name = "update" /\ Len(answers) = 2 THEN answers[2]
    ELSE "none"

\* C17 (as claimed): when the transport or the remote store fails the
\* request of create or the PATCH of update, the result is marked as an
\* error, carries the remote status code when there is one, and holds no
\* created or updated record.
C17_FailedWriteIsAnError ==
    (pc = "done" /\ WriteAnswer \in {"transport", "http"})
    => /\ ~result.raised
       /\ "error" \in result.keys
       /\ result.keys \cap {"data", "agent", "updated_agent"} = {}
       /\ WriteAnswer = "http"
            => /\ "status_code" \in result.keys
               /\ result.status_code \in {"404", "503"}

\* C17 holds of the client over requests (util.py).
C17_FailedWriteIsAnErrorByRequestsClient ==
    op.client = "requests" => C17_FailedWriteIsAnError

PassedValidationAndCredentials ==
    /\ pc = "done"
    /\ ~(result.raised /\ result.error[1] = "Missing required parameters: ")
    /\ credentials # <<>> /\ ~CredentialsFailed

\* the methods of the requests sent, in order
Methods == [i \in 1..Len(requests) |-> requests[i].method]

\* C19 (as claimed): every call of create, list, get, delete or
\* find_by_display_name that passes validation and credential acquisition
\* sends exactly one request, and every such call of update exactly two, a
\* GET followed by a PATCH.
C19_OneRequestOrTwoForUpdate ==
    PassedValidationAndCredentials
    => IF op.name = "update" THEN Methods = <<"GET", "PATCH">>
       ELSE Len(requests) = 1

\* C19 (amended): such a call of update sends its GET and then, only when
\* that get returned agent details, one PATCH; every other operation sends
\* exactly one request; no request is sent twice.
C19_OneRequestPerStep ==
    PassedValidationAndCredentials
    => /\ op.name = "update"
            => Methods = IF "agent_details" \in existing.keys
                         THEN <<"GET", "PATCH">> ELSE <<"GET">>
       /\ op.name = "create" => Methods = <<"POST">>
       /\ op.name \in {"list", "get", "find"} => Methods = <<"GET">>
       /\ op.name = "delete" => Methods = <<"DELETE">>

\* C19 witness: update whose GET was answered 404 by the store returned
\* after that one request.
C19_UpdateStopsAfterFailedGet ==
    /\ PassedValidationAndCredentials /\ op.name = "update"
    /\ op.client = "requests"
    /\ answers = <<"http">> /\ Methods = <<"GET">>

\* C20: the reasoning-engine reference of the PATCH body is the caller's
\* deployment id verbatim when non-empty (not composed into a resource path
\* as create does), otherwise the reference of the record get returned,
\* otherwise empty.
C20_UpdateSendsDeploymentIdVerbatim ==
    (op.name = "update" /\ PatchSent)
    => /\ "reasoningEngine" \in PatchBody.keys
       /\ PatchBody.reasoningEngine =
            IF a.adk_deployment_id \notin {PyNone, ""}
            THEN <<a.adk_deployment_id>>
            ELSE IF "reasoningEngine" \in existing_agent.keys
                 THEN existing_agent.reasoningEngine
            ELSE <<>>

\* C20 witness: update with deployment id "dep1" of a record created with a
\* composed reference sent the bare "dep1".
C20_BareIdReplacesComposedPath ==
    /\ op.name = "update" /\ PatchSent
    /\ a.adk_deployment_id = "dep1"
    /\ Len(existing_agent.reasoningEngine) = 6
    /\ PatchBody.reasoningEngine = <<"dep1">>

\* how a caller reads a result: as an error, or as a record, a collection
\* or a confirmation
Classified(res) ==
    IF res.raised \/ "error" \in res.keys THEN "error" ELSE "value"

\* the method of the first request of an operation
MethodOf(name) ==
    IF name = "create" THEN "POST"
    ELSE IF name = "delete" THEN "DELETE" ELSE "GET"

\* the operation (update: its get) as client c runs it
Call(c, name, args, e, st) ==
    IF name = "create" THEN Create(c, args, e, st)
    ELSE IF name = "list" THEN List(c, args, e, st)
    ELSE IF name = "find" THEN Find(c, args, e, st)
    ELSE IF name = "delete" THEN Delete(c, args, e, st)
    ELSE Get(c, args, e, st)

\* C21 (as claimed): for every operation, input and remote outcome the
\* client over requests and the client over curl send the same request and
\* classify the outcome the same way, as an error or not.
C21_ClientsBehaveAlike ==
    /\ (pc = "done" /\ op.name # "none")
         => \A e \in EnvsOf(before, MethodOf(op.name)) :
               LET r == Call("requests", op.name, a, e, before)
                   c == Call("curl", op.name, a, e, before)
               IN  /\ r.requests = c.requests
                   /\ Classified(r.result) = Classified(c.result)
    /\ pc = "update_merged"
         => \A e \in EnvsOf(store, "PATCH") :
               LET r == Patch("requests", a, payload, e, store)
                   c == Patch("curl", a, payload, e, store)
               IN  /\ r.requests = c.requests
                   /\ Classified(r.result) = Classified(c.result)

\* C21, the part that holds: both clients send the same request.
C21_ClientsSendTheSameRequest ==
    /\ (pc = "done" /\ op.name # "none")
         => \A e \in EnvsOf(before, MethodOf(op.name)) :
               Call("requests", op.name, a, e, before).requests
                 = Call("curl", op.name, a, e, before).requests
    /\ pc = "update_merged"
         => \A e \in EnvsOf(store, "PATCH") :
               Patch("requests", a, payload, e, store).requests
                 = Patch("curl", a, payload, e, store).requests

\* the parameters the operation requires
RequiredOf(name) ==
    IF name = "create"
    THEN {"project_id", "app_id", "display_name", "description",
          "tool_description", "adk_deployment_id"}
    ELSE IF name = "list" THEN {"project_id", "app_id"}
    ELSE IF name = "find" THEN {"project_id", "app_id", "display_name"}
    ELSE {"project_id", "app_id", "agent_id"}

\* the required parameters that are empty or absent in the call
MissingOfCall == {k \in RequiredOf(op.name) : a[k] \in {PyNone, ""}}

\* C22 (as claimed): list, get, create, delete and find_by_display_name send
\* a request only after validation and credential acquisition succeeded: a
\* call with an empty or absent key component, or with failing credentials,
\* sends no request.
C22_NoRequestBeforeValidation ==
    (pc = "done" /\ op.name \in {"list", "get", "create", "delete", "find"}
        /\ (MissingOfCall # {} \/ CredentialsFailed))
    => requests = <<>>

\* C22, the part that holds: a call with failing credentials, and a create,
\* delete or find call with a missing parameter, sends no request.
C22_NoRequestWithoutCredentials ==
    (pc = "done" /\ op.name \in {"list", "get", "create", "delete", "find"}
        /\ \/ CredentialsFailed
           \/ op.name \in {"create", "delete", "find"} /\ MissingOfCall # {})
    => requests = <<>>

\* C23: the creation request carries exactly one authorization, the path
\* built from auth_id, when auth_id is non-empty, and the empty sequence when
\* auth_id is absent or empty.
C23_CreateAuthorizations ==
    \A i \in SentOf("POST") :
        /\ "authorizations" \in requests[i].body.keys
        /\ requests[i].body.authorizations =
             IF a.auth_id \in {PyNone, ""} THEN <<>>
             ELSE << <<"projects", a.project_id, "locations", "global",
                       "authorizations", a.auth_id>> >>

\* C23 witness: a create without auth_id sent a request with no
\* authorizations.
C23_CreateSentWithoutAuthorization ==
    /\ op.name = "create" /\ SentOf("POST") # {}
    /\ a.auth_id = ""
    /\ requests[1].body.authorizations = <<>>

\* C24: every request addresses the project and the app of the call; every
\* request of get, update and delete addresses the agent_id of the call, the
\* GET and the PATCH of update both.
C24_RequestsStayInScope ==
    \A i \in 1..Len(requests) :
        /\ requests[i].url[2] = a.project_id
        /\ requests[i].url[8] = a.app_id
        /\ requests[i].userProject = a.project_id
        /\ IF op.name \in {"get", "update", "delete"}
           THEN Len(requests[i].url) = 12 /\ requests[i].url[12] = a.agent_id
           ELSE Len(requests[i].url) = 11

\* C24 witness: an update of a2 in a store that also holds a1 sent its GET
\* and its PATCH to a2, and a1 is as it was.
C24_UpdateAddressesItsAgent ==
    /\ pc = "done" /\ op.name = "update" /\ a.agent_id = "a2"
    /\ Methods = <<"GET", "PATCH">>
    /\ requests[1].url[12] = "a2" /\ requests[2].url[12] = "a2"
    /\ "a1" \in DOMAIN store /\ store["a1"] = before["a1"]

\* the same update request is applied a second time, right after a first
\* application whose PATCH succeeded, and no other writer intervened
SecondApplication ==
    /\ op.name = "update" /\ previous.name = "update"
    /\ op.args = previous.args
    /\ ~touched

\* C25 (as claimed): the second of two successive applications of the same
\* update request sends a PATCH body equal to the first, and leaves the
\* stored record as the first application left it.
C25_UpdateTwiceIsIdempotent ==
    SecondApplication
    => /\ PatchSent => PatchBody = previous.payload
       /\ (pc = "done" /\ PatchSucceeded) => store = before

\* C25 holds of the client over requests (util.py), which sends the second
\* PATCH only after a GET that returned the record.
C25_UpdateTwiceIsIdempotentByRequestsClient ==
    op.client = "requests" => C25_UpdateTwiceIsIdempotent

\* the categories of the store: app and position in the app's list
Stored ==
    {<<i, n>> : i \in AppDbIds, n \in 1..MaxCategories} \cap
    {p \in AppDbIds \X (1..MaxCategories) :
        p[2] <= Len(agentspace_apps_db[p[1]])}

\* the id of a stored category
IdOf(p) == agentspace_apps_db[p[1]][p[2]].id

\* C26: with requests handled one at a time, every category has an id
\* different from every other category's across all apps, ids are assigned
\* in strictly increasing order of creation, and no id is assigned twice,
\* deleted or not.
C26_CategoryIdsUniqueAndIncreasing ==
    /\ \A p, q \in Stored : p # q => IdOf(p) # IdOf(q)
    /\ \A m, n \in 1..Len(created) : m < n => created[m] < created[n]
    /\ \A p \in Stored : \E n \in 1..Len(created) : created[n] = IdOf(p)
    /\ Busy = {} => \A n \in 1..Len(created) : created[n] < next_category_id

\* C26 witness: three categories were created, the second was deleted, and
\* the third got id 3, not the freed 2.
C26_FreedIdNotReused ==
    /\ Busy = {} /\ created = <<1, 2, 3>>
    /\ \A p \in Stored : IdOf(p) # 2
    /\ \E p \in Stored : IdOf(p) = 3

\* both threads have answered 201 to add requests they handled concurrently
BothAdded ==
    \A t \in Threads :
        /\ handlers[t].pc = "responded"
        /\ handlers[t].route = "add" /\ handlers[t].status = 201

\* C27 (as claimed): two add-category requests handled concurrently give
\* their categories different ids, and next_category_id ends above both.
C27_ConcurrentAddsGetDifferentIds ==
    BothAdded
    => /\ handlers[1].new_category.id # handlers[2].new_category.id
       /\ \A t \in Threads : next_category_id > handlers[t].new_category.id

\* a request has been answered and no other is being handled
Answered(t) == handlers[t].pc = "responded" /\ Busy = {}

\* the request of thread t was to be rejected, with this status (0: not)
Rejection(t) ==
    LET h == handlers[t]
    IN  IF h.app_db_id \notin AppDbIds THEN 404
        ELSE IF h.route = "add" /\ ~h.json.hasName THEN 400
        ELSE IF h.route = "delete"
                /\ \A n \in 1..Len(h.db0[h.app_db_id]) :
                      h.db0[h.app_db_id][n].id # h.category_id
        THEN 404
        ELSE 0

\* C28: a rejected request (add or delete for an unknown app: 404; add
\* without 'name': 400; delete of a category id the app does not have: 404)
\* leaves every app's category list and next_category_id unchanged.
C28_RejectedRequestChangesNothing ==
    \A t \in Threads :
        (Answered(t) /\ Rejection(t) # 0)
        => /\ handlers[t].status = Rejection(t)
           /\ agentspace_apps_db = handlers[t].db0
           /\ next_category_id = handlers[t].next0

\* C28 witness: an add without 'name' for an app that has a category was
\* answered 400, and the store is as it was.
C28_AddWithoutNameRejected ==
    \E t \in Threads :
        /\ Answered(t) /\ handlers[t].route = "add"
        /\ handlers[t].app_db_id = 1 /\ ~handlers[t].json.hasName
        /\ handlers[t].status = 400
        /\ Len(agentspace_apps_db[1]) = 1 /\ next_category_id = 2

\* C29: a successful delete removes exactly the category with the given id
\* from the given app, keeps the app's other categories in their order,
\* every other app's categories and next_category_id; a category id that the
\* given app does not have, in another app or in none, is answered 404.
C29_DeleteRemovesExactlyOne ==
    \A t \in Threads :
        LET h == handlers[t]
            was == h.db0[h.app_db_id]
        IN  (Answered(t) /\ h.route = "delete")
            => IF h.status = 200
               THEN /\ \E n \in 1..Len(was) :
                         /\ was[n].id = h.category_id
                         /\ agentspace_apps_db[h.app_db_id] =
                              [m \in 1..(Len(was) - 1) |->
                                  IF m < n THEN was[m] ELSE was[m + 1]]
                    /\ \A i \in AppDbIds \ {h.app_db_id} :
                         agentspace_apps_db[i] = h.db0[i]
                    /\ next_category_id = h.next0
               ELSE /\ h.status = 404
                    /\ \/ h.app_db_id \notin AppDbIds
                       \/ \A n \in 1..Len(was) : was[n].id # h.category_id
                    /\ agentspace_apps_db = h.db0

\* C29 witness: app 1 held categories 1 and 3 and app 2 category 2; the
\* delete of 1 from app 1 left 3 in app 1 and 2 in app 2.
C29_DeletedFirstOfTwo ==
    \E t \in Threads :
        /\ Answered(t) /\ handlers[t].route = "delete"
        /\ handlers[t].status = 200
        /\ handlers[t].app_db_id = 1 /\ handlers[t].category_id = 1
        /\ Len(handlers[t].db0[1]) = 2
        /\ Len(agentspace_apps_db[1]) = 1 /\ agentspace_apps_db[1][1].id = 3
        /\ Len(agentspace_apps_db[2]) = 1 /\ agentspace_apps_db[2][1].id = 2

====
